---- MODULE Spec2Model ----
(***************************************************************************)
(* Model of the real-time core of chatting-karle:                          *)
(*   Backend/src/config/socket.ts   authentication middleware, connection, *)
(*                                  sendMessage, typing, stopTyping and    *)
(*                                  disconnect handlers                    *)
(*   Backend/src/models/Message.ts  the message document, its validators   *)
(*                                  and markAsRead                         *)
(*   chat.controller.ts             the REST markMessageAsRead handler     *)
(*   auth.controller.ts             the REST logout handler                *)
(*                                                                         *)
(* Every `await` of a handler is a step boundary: the awaited storage call *)
(* takes effect, and the handler resumes, in one later step; the code      *)
(* between two awaits is one atomic step (the Node.js event loop runs it   *)
(* to completion).  A storage call may fail: the step takes ok \in BOOLEAN.*)
(***************************************************************************)
EXTENDS Integers, Sequences, FiniteSets, TLC

\* ---- bounds ------------------------------------------------------------
MaxSocks == 3      \* connections ever opened
MaxMsgs  == 2      \* sendMessage events received in SpecOrder
MaxReads == 2      \* REST markMessageAsRead requests ever received
OneRead == 1       \* REST markMessageAsRead requests received in SpecRead
PairSocks == 2     \* connections opened in the specifications of two connections
OneMsg == 1        \* sendMessage events received in SpecRelay, SpecRead, SpecInput
MaxTyping == 2     \* typing and stopTyping events received in SpecTyping
OneTyping == 1     \* typing and stopTyping events received in Spec and SpecInput
MaxLogouts == 1    \* REST logout requests ever received
MaxEmits == 1      \* emitToUser calls ever made
MaxPosts == 1      \* REST sendMessage requests ever received
MaxDeletes == 2    \* REST deleteMessage requests ever received
MaxRegs == 2       \* register requests ever received

\* ---- universe ----------------------------------------------------------
Users  == {"A", "B"}              \* users stored in the database
Socks  == 1 .. MaxSocks
NoUser == "none"
NoMsg  == 0

\* socket.io disconnect reasons the handler distinguishes (socket.ts:199)
ReconnectReasons == {"transport close", "ping timeout"}
Reasons == ReconnectReasons \cup {"client namespace disconnect"}

VARIABLES
  sockState,          \* [Socks -> {"new","refused","open","closed"}]  the connection
  sockUser,           \* socket.userId, set by the authentication middleware
  connPc,             \* position of the connection handler of each socket
  discPc,             \* position of the disconnect handler of each socket
  activeConnections,  \* the Map<string, AuthenticatedSocket>, as key/value pairs
  rooms,              \* socket.io rooms: room name (a user id) -> sockets joined
  isOnline,           \* User.isOnline in the database
  typingTimeout,      \* the closure variable: receiver of the pending timer
  messages,           \* the Message collection, in insertion order (_id = index)
  reqs,               \* the sendMessage handler invocations
  pushLog,            \* requests in the order their messageReceived was emitted
  reads,              \* the markMessageAsRead invocations
  lastSeen,           \* User.lastSeen in the database: the operation that wrote it
  statusLog,          \* the userStatusChanged broadcasts each socket has emitted
  typingLog,          \* typing events received and pushes emitted, per socket
  sockCred,           \* the credential each connection presented in its handshake
  logouts,            \* the REST logout invocations
  emits,              \* the emitToUser calls
  posts,              \* the REST sendMessage invocations
  deletes,            \* the REST deleteMessage invocations
  accounts,           \* the User documents stored by register, in insertion order
  regs                \* the REST register invocations

vars == <<sockState, sockUser, connPc, discPc, activeConnections, rooms,
          isOnline, typingTimeout, messages, reqs, pushLog, reads,
          lastSeen, statusLog, typingLog, sockCred, logouts,
          emits, posts, deletes, accounts, regs>>

\* The state of the operations outside the socket handlers.
restVars == <<emits, posts, deletes, accounts, regs>>

\* The state of the connections, their handlers and the stored presence.
connVars == <<sockState, sockUser, connPc, discPc, activeConnections, rooms,
              isOnline, typingTimeout, lastSeen, statusLog, typingLog,
              sockCred, logouts>>

sockVars == <<sockState, sockUser, connPc, discPc, activeConnections, rooms,
              isOnline, typingTimeout, lastSeen, statusLog, typingLog,
              sockCred, logouts, restVars>>
relayVars == <<messages, reqs, pushLog>>

\* Ids a client can send besides those of the users: a well-formed ObjectId
\* that names no user, and a string that is no ObjectId.
GhostId == "ghost"

BadId == "not-an-id"

\* ---- Map<K,V> ----------------------------------------------------------
MapHas(m, k) == \E p \in m : p[1] = k

MapGet(m, k) == IF MapHas(m, k) THEN (CHOOSE p \in m : p[1] = k)[2] ELSE 0

MapSet(m, k, v) == {p \in m : p[1] # k} \cup {<<k, v>>}

MapDelete(m, k) == {p \in m : p[1] # k}

\* ---- socket.io rooms and broadcast operators ---------------------------
\* Socket#join with the in-memory adapter: the socket enters the room at once.
Join(rm, s, room) == [rm EXCEPT ![room] = @ \cup {s}]

\* Socket#_onclose leaves every room.
LeaveAll(rm, s) == [r \in DOMAIN rm |-> rm[r] \ {s}]

\* Mutant of ToRoom: the emitting socket is not excluded.
ToRoomWithSender(s, room) == IF room \in DOMAIN rooms THEN rooms[room] ELSE {}

\* socket.to(room).emit: the sockets of the room, except the emitting one.
ToRoom(s, room) == IF room \in DOMAIN rooms THEN rooms[room] \ {s} ELSE {}

\* io.to(room).emit: every socket of the room.
IoTo(room) == IF room \in DOMAIN rooms THEN rooms[room] ELSE {}

\* socket.broadcast.emit("userStatusChanged", {userId, isOnline}) by socket s:
\* statusLog[s] lists the payloads s has broadcast, in order.
StatusChanged(s, online) == [userId |-> sockUser[s], isOnline |-> online]

\* User.findByIdAndUpdate(id, {field: v}): the document of id, when there is
\* one, gets the value.
UpdateUser(field, id, v) ==
  IF id \in DOMAIN field THEN [field EXCEPT ![id] = v] ELSE field

Init ==
  /\ sockState = [s \in Socks |-> "new"]
  /\ sockUser = [s \in Socks |-> NoUser]
  /\ connPc = [s \in Socks |-> "idle"]
  /\ discPc = [s \in Socks |-> "none"]
  /\ activeConnections = {}
  /\ rooms = [u \in Users |-> {}]
  /\ isOnline = [u \in Users |-> FALSE]
  /\ typingTimeout = [s \in Socks |-> NoUser]
  /\ messages = <<>>
  /\ reqs = <<>>
  /\ pushLog = <<>>
  /\ reads = <<>>
  /\ lastSeen = [u \in Users |-> "created"]
  /\ statusLog = [s \in Socks |-> <<>>]
  /\ typingLog = [s \in Socks |-> <<>>]
  /\ sockCred = [s \in Socks |-> NoUser]
  /\ logouts = <<>>
  /\ emits = <<>>
  /\ posts = <<>>
  /\ deletes = <<>>
  /\ accounts = <<>>
  /\ regs = <<>>

\* ---- io.on("connection") -----------------------------------------------
\* Mutant of Connect: an existing entry is kept: the connection it names
\* is not replaced when a new one registers.
ConnectKeepsOldEntry(s, u) ==
  /\ sockState[s] = "new"
  /\ \A t \in Socks : t < s => sockState[t] # "new"
  /\ sockState' = [sockState EXCEPT ![s] = "open"]
  /\ sockUser' = [sockUser EXCEPT ![s] = u]
  /\ activeConnections' = IF MapHas(activeConnections, u) THEN activeConnections
                          ELSE MapSet(activeConnections, u, s)
  /\ rooms' = Join(rooms, s, u)
  /\ connPc' = [connPc EXCEPT ![s] = "presence"]
  /\ sockCred' = [sockCred EXCEPT ![s] = u]
  /\ UNCHANGED <<discPc, isOnline, typingTimeout, messages, reqs, pushLog, reads,
                 lastSeen, statusLog, typingLog, logouts, restVars>>

\* ---- io.use: the authentication middleware ------------------------------
\* What a handshake can present: a valid token of a user, no token, a string
\* that is no JWT, an expired token, and a valid token whose id names no user.
Credentials == Users \cup {"missing", "malformed", "expired", GhostId}

\* Mutant of Authenticates: a verified token passes without the user lookup.
AuthenticatesUnknownUser(cred) == cred \in Users \cup {GhostId}

\* socket.ts:39-67  the token is a string, jwt.verify accepts it and
\* User.findById finds the user it names.
Authenticates(cred) == cred \in Users

\* socket.ts:37-95  the middleware ends in its catch: the credential does not
\* authenticate, or User.findById rejected.  The catch reads `token`, which
\* is declared in the try block (socket.ts:39, 80): whether it then calls
\* next(err) or throws before it, the connection handler never runs.
AuthFail(s, cred, ok) ==
  /\ sockState[s] = "new"
  /\ \A t \in Socks : t < s => sockState[t] # "new"
  /\ ~Authenticates(cred) \/ ~ok
  /\ sockState' = [sockState EXCEPT ![s] = "refused"]
  /\ sockCred' = [sockCred EXCEPT ![s] = cred]
  /\ UNCHANGED <<sockUser, connPc, discPc, activeConnections, rooms, isOnline,
                 typingTimeout, lastSeen, statusLog, typingLog, logouts, restVars,
                 relayVars, reads>>

\* socket.ts:99-113  a connection that passed the middleware as user u:
\* activeConnections.set and socket.join.  The server is built without an
\* adapter option (socket.ts:26), so join is the in-memory one: it returns no
\* promise and `await` resumes in the same turn of the event loop, before any
\* other event; User.findByIdAndUpdate is then called and awaited.  Connections
\* are numbered in the order they open.
Connect(s, u) ==
  /\ sockState[s] = "new"
  /\ \A t \in Socks : t < s => sockState[t] # "new"
  /\ sockState' = [sockState EXCEPT ![s] = "open"]
  /\ sockUser' = [sockUser EXCEPT ![s] = u]
  /\ activeConnections' = MapSet(activeConnections, u, s)
  /\ rooms' = Join(rooms, s, u)
  /\ connPc' = [connPc EXCEPT ![s] = "presence"]
  /\ sockCred' = [sockCred EXCEPT ![s] = u]
  /\ UNCHANGED <<discPc, isOnline, typingTimeout, messages, reqs, pushLog, reads,
                 lastSeen, statusLog, typingLog, logouts, restVars>>

\* socket.ts:113-242  the presence write resolved: broadcast, then the event
\* handlers (sendMessage, typing, stopTyping, disconnect) are registered.
\* socket.ts:243-246  it rejected: socket.disconnect(true), no handler registered.
ConnectPresence(s, ok) ==
  /\ connPc[s] = "presence"
  /\ IF ok
       THEN /\ isOnline' = UpdateUser(isOnline, sockUser[s], TRUE)
            /\ lastSeen' = UpdateUser(lastSeen, sockUser[s], "connect")
            /\ statusLog' = [statusLog EXCEPT ![s] =
                   Append(@, StatusChanged(s, TRUE))]
            /\ connPc' = [connPc EXCEPT ![s] = "ready"]
            /\ UNCHANGED <<sockState, rooms>>
       ELSE /\ connPc' = [connPc EXCEPT ![s] = "failed"]
            /\ sockState' = [sockState EXCEPT ![s] = "closed"]
            /\ rooms' = LeaveAll(rooms, s)
            /\ UNCHANGED <<isOnline, lastSeen, statusLog>>
  /\ UNCHANGED <<sockUser, discPc, activeConnections, typingTimeout,
                 messages, reqs, pushLog, reads, typingLog, sockCred, logouts, restVars>>

\* ---- socket.on("disconnect") -------------------------------------------
\* socket.ts:199-201  a server-side Socket has no connect(): for the two
\* reconnect reasons the call throws a TypeError, caught at socket.ts:224.
ThrowsOnReconnect(reason) == reason \in ReconnectReasons

\* socket.ts:191-211  the connection closes (the transport leaves every room)
\* and, when the handler is registered, its synchronous part runs:
\* clearTimeout, activeConnections.delete, then the presence write is awaited.
Disconnect(s, reason) ==
  /\ sockState[s] = "open"
  /\ sockState' = [sockState EXCEPT ![s] = "closed"]
  /\ rooms' = LeaveAll(rooms, s)
  /\ IF connPc[s] = "ready"
       THEN IF ThrowsOnReconnect(reason)
              THEN /\ discPc' = [discPc EXCEPT ![s] = "done"]
                   /\ UNCHANGED <<typingTimeout, activeConnections>>
              ELSE /\ typingTimeout' = [typingTimeout EXCEPT ![s] = NoUser]
                   /\ activeConnections' = MapDelete(activeConnections, sockUser[s])
                   /\ discPc' = [discPc EXCEPT ![s] = "presence"]
       ELSE UNCHANGED <<discPc, typingTimeout, activeConnections>>
  /\ UNCHANGED <<sockUser, connPc, isOnline, messages, reqs, pushLog, reads,
                 lastSeen, statusLog, typingLog, sockCred, logouts, restVars>>

\* socket.ts:208-226  the presence write resolved (broadcast, "done") or
\* rejected (the catch logs it, "failed").
DisconnectPresence(s, ok) ==
  /\ discPc[s] = "presence"
  /\ IF ok
       THEN /\ discPc' = [discPc EXCEPT ![s] = "done"]
            /\ isOnline' = UpdateUser(isOnline, sockUser[s], FALSE)
            /\ lastSeen' = UpdateUser(lastSeen, sockUser[s], "disconnect")
            /\ statusLog' = [statusLog EXCEPT ![s] =
                   Append(@, StatusChanged(s, FALSE))]
       ELSE /\ discPc' = [discPc EXCEPT ![s] = "failed"]
            /\ UNCHANGED <<isOnline, lastSeen, statusLog>>
  /\ UNCHANGED <<sockState, sockUser, connPc, activeConnections, rooms,
                 typingTimeout, messages, reqs, pushLog, reads, typingLog,
                 sockCred, logouts, restVars>>

\* A socket whose handlers are registered and that can still receive events.
Ready(s) == sockState[s] = "open" /\ connPc[s] = "ready"

\* ---- socket.on("sendMessage") ------------------------------------------
\* A string is modelled by its lengths: core characters between the first and
\* the last non-blank one, pad blank characters around them.
Str(pad, core) == [pad |-> pad, core |-> core]

Length(str) == str.pad + str.core

\* Message.ts:70  trim: true, the setter String.prototype.trim.
Trim(str) == Str(0, str.core)

\* Message.ts:69  required: a string passes when it is not empty.
Required(str) == Length(str) > 0

\* Message.ts:71  maxlength: [5000, ...].
MaxLength == 5000

\* The receiver ids a client can send.
ReceiverIds == Users \cup {GhostId, BadId}

\* Mutant of ValidCreate: the schema has no maxlength.
ValidCreateNoMaxLength(data) ==
  /\ data.receiverId # BadId
  /\ Required(Trim(data.content))

\* Message.ts:60-72  what Message.create validates of the event's data: the
\* receiver casts to an ObjectId, and the content, after the trim setter has
\* run, is not empty and not longer than MaxLength.
ValidCreate(data) ==
  /\ data.receiverId # BadId
  /\ Required(Trim(data.content))
  /\ Length(Trim(data.content)) <= MaxLength

\* The data of a plain text message to user rcv.
Text(rcv) == [receiverId |-> rcv, content |-> Str(0, 1), tempId |-> "t1"]

\* The contents, lengths around the limits of the validators, and the data a
\* client can send.
Contents == {Str(pad, core) : pad \in {0, 1}, core \in {0, 1, MaxLength, MaxLength + 1}}

TempIds == {"t1", "t2"}

Data == [receiverId : ReceiverIds, content : Contents, tempId : TempIds]

SetReq(i, r) == [reqs EXCEPT ![i] = r]

Logged(r, ev) == [r EXCEPT !.log = Append(@, ev)]

\* Mutant of Failed: the error is emitted to every open connection.
FailedToAll(r) ==
  [Logged(r, "error") EXCEPT
     !.pc = "done",
     !.errorsTo = @ \cup {t \in Socks : sockState[t] = "open"} \cup {r.sock}]

\* socket.ts:160  catch: socket.emit("error", ...) to the initiating socket.
Failed(r) == [Logged(r, "error") EXCEPT !.pc = "done", !.errorsTo = @ \cup {r.sock}]

\* socket.ts:131-139  the event arrives on a registered socket; Message.create
\* is called and awaited.  Of an invocation, log lists the calls it has made
\* (create, ack = messageSent, push = messageReceived, update = the status
\* save, error), pushedTo the connections its push reached, and sessionAtCreate
\* and sessionAtPush whether activeConnections held an entry for the receiver
\* when the document was stored and when the push was emitted, and room the
\* connections in the receiver's room at the push; sent lists the
\* payloads of its messageSent emits and errorsTo the connections its error
\* events went to.
SendMessage(s, data) ==
  /\ Ready(s)
  /\ Len(reqs) < MaxMsgs
  /\ reqs' = Append(reqs, [sock |-> s, receiver |-> data.receiverId,
                           data |-> data, pc |-> "create",
                           msgId |-> NoMsg, log |-> <<>>, pushedTo |-> {},
                           room |-> {}, sent |-> <<>>, errorsTo |-> {},
                           sessionAtCreate |-> FALSE, sessionAtPush |-> FALSE])
  /\ UNCHANGED <<sockVars, messages, pushLog, reads>>

\* Mutant of NewMessage: the document is created already marked delivered.
NewMessageDelivered(i) ==
  [sender |-> sockUser[reqs[i].sock], receiver |-> reqs[i].receiver,
   content |-> Trim(reqs[i].data.content),
   status |-> "delivered", readAt |-> FALSE, req |-> i, deletedFor |-> <<>>]

\* The document Message.create stores (socket.ts:133-139, Message.ts:80-89).
NewMessage(i) ==
  [sender |-> sockUser[reqs[i].sock], receiver |-> reqs[i].receiver,
   content |-> Trim(reqs[i].data.content),
   status |-> "sent", readAt |-> FALSE, req |-> i, deletedFor |-> <<>>]

\* Mutant of SendCreate: a rejected Message.create is swallowed and the handler
\* goes on to populate and relay a document that was never stored.
SendCreateSwallowsFailure(i, ok) ==
  /\ reqs[i].pc = "create"
  /\ IF ok /\ ValidCreate(reqs[i].data)
       THEN /\ messages' = Append(messages, NewMessage(i))
            /\ reqs' = SetReq(i, [Logged(reqs[i], "create") EXCEPT
                                    !.pc = "populate",
                                    !.msgId = Len(messages) + 1,
                                    !.sessionAtCreate =
                                       MapHas(activeConnections, reqs[i].receiver)])
       ELSE /\ reqs' = SetReq(i, [reqs[i] EXCEPT !.pc = "populate"])
            /\ UNCHANGED messages
  /\ UNCHANGED <<sockVars, pushLog, reads>>

\* socket.ts:133-141  Message.create resolved (the data is valid and the
\* document is stored; populate is called) or rejected by validation or by the
\* storage (catch).
SendCreate(i, ok) ==
  /\ reqs[i].pc = "create"
  /\ IF ok /\ ValidCreate(reqs[i].data)
       THEN /\ messages' = Append(messages, NewMessage(i))
            /\ reqs' = SetReq(i, [Logged(reqs[i], "create") EXCEPT
                                    !.pc = "populate",
                                    !.msgId = Len(messages) + 1,
                                    !.sessionAtCreate =
                                       MapHas(activeConnections, reqs[i].receiver)])
       ELSE /\ reqs' = SetReq(i, Failed(reqs[i]))
            /\ UNCHANGED messages
  /\ UNCHANGED <<sockVars, pushLog, reads>>

\* socket.ts:147-157  after populate: messageSent to the sender, messageReceived
\* to the receiver's room, message.status = "delivered", save() called.
Relay(i) ==
  LET r == reqs[i]
      reached == ToRoom(r.sock, r.receiver)
  IN  /\ reqs' = SetReq(i, [Logged(Logged(r, "ack"), "push") EXCEPT
                              !.pc = "save",
                              !.sent = Append(@, [messageId |-> r.msgId,
                                                  tempId |-> r.data.tempId]),
                              !.pushedTo = reached,
                              !.room = IoTo(r.receiver),
                              !.sessionAtPush = MapHas(activeConnections, r.receiver)])
      /\ pushLog' = Append(pushLog, i)

\* socket.ts:141-157  populate resolved (the relay runs) or rejected (catch).
SendPopulate(i, ok) ==
  /\ reqs[i].pc = "populate"
  /\ IF ok
       THEN Relay(i)
       ELSE /\ reqs' = SetReq(i, Failed(reqs[i]))
            /\ UNCHANGED pushLog
  /\ UNCHANGED <<sockVars, messages, reads>>

\* message.save() writes the modified path only: $set {status}.
SaveStatus(msgs, m, st) == [msgs EXCEPT ![m].status = st]

\* socket.ts:156-161  save resolved (status delivered is stored) or rejected.
SendSave(i, ok) ==
  /\ reqs[i].pc = "save"
  /\ IF ok
       THEN /\ messages' = SaveStatus(messages, reqs[i].msgId, "delivered")
            /\ reqs' = SetReq(i, [Logged(reqs[i], "update") EXCEPT !.pc = "done"])
       ELSE /\ reqs' = SetReq(i, Failed(reqs[i]))
            /\ UNCHANGED messages
  /\ UNCHANGED <<sockVars, pushLog, reads>>

\* ---- typing indicators -------------------------------------------------
\* typingLog[s] lists, in order, what socket s received ("typing",
\* "stopTyping", and "timeout" for an expiry of its timer) and what it then
\* emitted ("userTyping", "userStoppedTyping"), each with the room addressed.
Entry(ev, room) == [ev |-> ev, to |-> room]

InboundTyping == {"typing", "stopTyping"}

\* The typing and stopTyping events received so far, over all sockets.
TypingEvents ==
  LET n(s) == Cardinality({k \in DOMAIN typingLog[s] :
                             typingLog[s][k].ev \in InboundTyping})
      Sum[S \in SUBSET Socks] ==
        IF S = {} THEN 0
        ELSE LET s == CHOOSE x \in S : TRUE IN n(s) + Sum[S \ {s}]
  IN  Sum[Socks]

\* Mutant of Typing: userTyping is emitted and no timer is armed.
TypingNoTimer(s, rcv) ==
  /\ Ready(s)
  /\ TypingEvents < MaxTyping
  /\ typingTimeout' = [typingTimeout EXCEPT ![s] = NoUser]
  /\ typingLog' = [typingLog EXCEPT ![s] =
         @ \o <<Entry("typing", rcv), Entry("userTyping", rcv)>>]
  /\ UNCHANGED <<sockState, sockUser, connPc, discPc, activeConnections, rooms,
                 isOnline, relayVars, reads, lastSeen, statusLog, sockCred,
                 logouts, restVars>>

\* socket.ts:167-181  clearTimeout, userTyping to the receiver's room, setTimeout.
Typing(s, rcv) ==
  /\ Ready(s)
  /\ TypingEvents < MaxTyping
  /\ typingTimeout' = [typingTimeout EXCEPT ![s] = rcv]
  /\ typingLog' = [typingLog EXCEPT ![s] =
         @ \o <<Entry("typing", rcv), Entry("userTyping", rcv)>>]
  /\ UNCHANGED <<sockState, sockUser, connPc, discPc, activeConnections, rooms,
                 isOnline, relayVars, reads, lastSeen, statusLog, sockCred,
                 logouts, restVars>>

\* Mutant of StopTyping: userStoppedTyping is emitted and the timer is left
\* armed.
StopTypingKeepsTimer(s, rcv) ==
  /\ Ready(s)
  /\ TypingEvents < MaxTyping
  /\ typingLog' = [typingLog EXCEPT ![s] =
         @ \o <<Entry("stopTyping", rcv), Entry("userStoppedTyping", rcv)>>]
  /\ UNCHANGED <<sockState, sockUser, connPc, discPc, activeConnections, rooms,
                 isOnline, relayVars, reads, lastSeen, statusLog, sockCred,
                 logouts, restVars, typingTimeout>>

\* socket.ts:183-188  clearTimeout, userStoppedTyping to the receiver's room.
StopTyping(s, rcv) ==
  /\ Ready(s)
  /\ TypingEvents < MaxTyping
  /\ typingTimeout' = [typingTimeout EXCEPT ![s] = NoUser]
  /\ typingLog' = [typingLog EXCEPT ![s] =
         @ \o <<Entry("stopTyping", rcv), Entry("userStoppedTyping", rcv)>>]
  /\ UNCHANGED <<sockState, sockUser, connPc, discPc, activeConnections, rooms,
                 isOnline, relayVars, reads, lastSeen, statusLog, sockCred,
                 logouts, restVars>>

\* socket.ts:176-180  the 3 s timer expires: userStoppedTyping to the room the
\* timer was armed for.
TimerFire(s) ==
  /\ typingTimeout[s] # NoUser
  /\ typingTimeout' = [typingTimeout EXCEPT ![s] = NoUser]
  /\ typingLog' = [typingLog EXCEPT ![s] =
         @ \o <<Entry("timeout", typingTimeout[s]),
                Entry("userStoppedTyping", typingTimeout[s])>>]
  /\ UNCHANGED <<sockState, sockUser, connPc, discPc, activeConnections, rooms,
                 isOnline, relayVars, reads, lastSeen, statusLog, sockCred,
                 logouts, restVars>>

\* ---- REST markMessageAsRead (chat.controller.ts) ------------------------
SetRead(j, r) == [reads EXCEPT ![j] = r]

\* api.ts:256-268  PUT /messages/:messageId/read by user u: findOne is awaited.
MarkMessageAsRead(u, m) ==
  /\ Len(reads) < MaxReads
  /\ reads' = Append(reads, [user |-> u, msg |-> m, pc |-> "find", res |-> 0])
  /\ UNCHANGED <<sockVars, relayVars>>

\* api.ts:264-268  the filter {_id, receiver: userId, status: {$ne: "read"}}.
FindUnread(m, u) ==
  /\ m \in 1 .. Len(messages)
  /\ messages[m].receiver = u
  /\ messages[m].status # "read"

\* api.ts:264-278  findOne resolved: 404 when nothing matches, else markAsRead.
ReadFind(j, ok) ==
  /\ reads[j].pc = "find"
  /\ reads' = SetRead(j,
       IF ~ok THEN [reads[j] EXCEPT !.pc = "done", !.res = 500]
       ELSE IF FindUnread(reads[j].msg, reads[j].user)
              THEN [reads[j] EXCEPT !.pc = "save"]
              ELSE [reads[j] EXCEPT !.pc = "done", !.res = 404])
  /\ UNCHANGED <<sockVars, relayVars>>

\* Message.ts:143-147  markAsRead: status = "read", readAt = now, save().
MarkAsRead(msgs, m) == [msgs EXCEPT ![m].status = "read", ![m].readAt = TRUE]

\* api.ts:278-295  the save resolved (messageRead to the sender's room, 200)
\* or rejected (500).
ReadSave(j, ok) ==
  /\ reads[j].pc = "save"
  /\ IF ok
       THEN /\ messages' = MarkAsRead(messages, reads[j].msg)
            /\ reads' = SetRead(j, [reads[j] EXCEPT !.pc = "done", !.res = 200])
       ELSE /\ reads' = SetRead(j, [reads[j] EXCEPT !.pc = "done", !.res = 500])
            /\ UNCHANGED messages
  /\ UNCHANGED <<sockVars, reqs, pushLog>>

\* ---- REST sendMessage (chat.controller.ts) ------------------------------
SetPost(k, r) == [posts EXCEPT ![k] = r]

\* api.ts:158-174  POST /messages by user u: User.findById(receiverId) is
\* awaited.  Of an invocation, pushedTo is the connections its messageReceived
\* reached, room the connections in the receiver's room at that moment, and
\* res the status of its response.
PostMessage(u, data) ==
  /\ Len(posts) < MaxPosts
  /\ posts' = Append(posts, [user |-> u, data |-> data, pc |-> "find",
                             msgId |-> NoMsg, pushedTo |-> {}, room |-> {},
                             res |-> 0])
  /\ UNCHANGED <<connVars, relayVars, reads, emits, deletes, accounts, regs>>

\* api.ts:174-189  findById resolved: 404 when no user has that id, else
\* Message.create is called; it rejected, or the id is no ObjectId: 500.
PostFind(k, ok) ==
  /\ k \in DOMAIN posts
  /\ posts[k].pc = "find"
  /\ posts' = SetPost(k,
       IF ~ok \/ posts[k].data.receiverId = BadId
         THEN [posts[k] EXCEPT !.pc = "done", !.res = 500]
       ELSE IF posts[k].data.receiverId \notin Users
         THEN [posts[k] EXCEPT !.pc = "done", !.res = 404]
         ELSE [posts[k] EXCEPT !.pc = "create"])
  /\ UNCHANGED <<connVars, relayVars, reads, emits, deletes, accounts, regs>>

\* The document Message.create stores (api.ts:184-189; status takes the
\* schema default, Message.ts:80-84).
NewPost(k) ==
  [sender |-> posts[k].user, receiver |-> posts[k].data.receiverId,
   content |-> Trim(posts[k].data.content),
   status |-> "sent", readAt |-> FALSE, req |-> 0, deletedFor |-> <<>>]

\* api.ts:184-195  Message.create resolved (the document is stored, populate
\* is called) or rejected by validation or by the storage (500).
PostCreate(k, ok) ==
  /\ k \in DOMAIN posts
  /\ posts[k].pc = "create"
  /\ IF ok /\ ValidCreate(posts[k].data)
       THEN /\ messages' = Append(messages, NewPost(k))
            /\ posts' = SetPost(k, [posts[k] EXCEPT !.pc = "populate",
                                                    !.msgId = Len(messages) + 1])
       ELSE /\ posts' = SetPost(k, [posts[k] EXCEPT !.pc = "done", !.res = 500])
            /\ UNCHANGED messages
  /\ UNCHANGED <<connVars, reqs, pushLog, reads, emits, deletes, accounts, regs>>

\* api.ts:192-205  populate resolved (messageReceived to the receiver's room,
\* 201) or rejected (500).  req.io is taken to be the socket.io server.
PostPopulate(k, ok) ==
  /\ k \in DOMAIN posts
  /\ posts[k].pc = "populate"
  /\ posts' = SetPost(k,
       IF ok
         THEN [posts[k] EXCEPT !.pc = "done", !.res = 201,
                               !.pushedTo = IoTo(posts[k].data.receiverId),
                               !.room = IoTo(posts[k].data.receiverId)]
         ELSE [posts[k] EXCEPT !.pc = "done", !.res = 500])
  /\ UNCHANGED <<connVars, relayVars, reads, emits, deletes, accounts, regs>>

\* ---- REST deleteMessage (chat.controller.ts) ----------------------------
SetDelete(j, r) == [deletes EXCEPT ![j] = r]

\* api.ts:302-313  DELETE /messages/:messageId by user u: findOne is awaited.
DeleteMessage(u, m) ==
  /\ Len(deletes) < MaxDeletes
  /\ deletes' = Append(deletes, [user |-> u, msg |-> m, pc |-> "find", res |-> 0])
  /\ UNCHANGED <<connVars, relayVars, reads, emits, posts, accounts, regs>>

\* api.ts:310-313  the filter {_id, $or: [{sender: userId}, {receiver: userId}]}.
FindOwn(m, u) ==
  /\ m \in 1 .. Len(messages)
  /\ u \in {messages[m].sender, messages[m].receiver}

\* Array.prototype.includes on deletedFor.
Includes(arr, u) == \E k \in DOMAIN arr : arr[k] = u

\* api.ts:310-329, Message.ts:153-160  findOne resolved: 404 when nothing
\* matches; else softDelete tests the loaded document: a user already in
\* deletedFor is answered 200 without a write, otherwise the user is pushed
\* and save() awaited.  findOne rejected: 500.
DeleteFind(j, ok) ==
  /\ j \in DOMAIN deletes
  /\ deletes[j].pc = "find"
  /\ deletes' = SetDelete(j,
       IF ~ok THEN [deletes[j] EXCEPT !.pc = "done", !.res = 500]
       ELSE IF ~FindOwn(deletes[j].msg, deletes[j].user)
         THEN [deletes[j] EXCEPT !.pc = "done", !.res = 404]
       ELSE IF Includes(messages[deletes[j].msg].deletedFor, deletes[j].user)
         THEN [deletes[j] EXCEPT !.pc = "done", !.res = 200]
         ELSE [deletes[j] EXCEPT !.pc = "save"])
  /\ UNCHANGED <<connVars, relayVars, reads, emits, posts, accounts, regs>>

\* save() of a document whose only modified path is the pushed array
\* element: $push {deletedFor: u} on the stored document.
PushDeletedFor(msgs, m, u) == [msgs EXCEPT ![m].deletedFor = Append(@, u)]

\* Message.ts:157-158, api.ts:324-335  the save resolved (200) or rejected (500).
DeleteSave(j, ok) ==
  /\ j \in DOMAIN deletes
  /\ deletes[j].pc = "save"
  /\ IF ok
       THEN /\ messages' = PushDeletedFor(messages, deletes[j].msg, deletes[j].user)
            /\ deletes' = SetDelete(j, [deletes[j] EXCEPT !.pc = "done", !.res = 200])
       ELSE /\ deletes' = SetDelete(j, [deletes[j] EXCEPT !.pc = "done", !.res = 500])
            /\ UNCHANGED messages
  /\ UNCHANGED <<connVars, reqs, pushLog, reads, emits, posts, accounts, regs>>

\* ---- register (auth.controller.ts) --------------------------------------
\* A username is its text and the whitespace around it; the other fields are
\* plain strings, "" when the body has none.
Usernames == [pad : {0, 1}, name : {"", "ann", "bob"}]

Emails == {"", "a@x.io", "b@x.io"}

Passwords == {"", "secret"}

\* User.ts:43  trim: true on username.
TrimName(n) == [n EXCEPT !.pad = 0]

\* auth.controller.ts:38  !username: only the empty string is falsy.
Missing(n) == n.pad = 0 /\ n.name = ""

SetReg(j, r) == [regs EXCEPT ![j] = r]

\* auth.controller.ts:33-56  POST /register: 400 when a field is missing,
\* else User.findOne is awaited.
Register(n, email, password) ==
  /\ Len(regs) < MaxRegs
  /\ regs' = Append(regs,
       IF Missing(n) \/ email = "" \/ password = ""
         THEN [username |-> n, email |-> email, pc |-> "done", res |-> 400,
               error |-> "none"]
         ELSE [username |-> n, email |-> email, pc |-> "find", res |-> 0,
               error |-> "none"])
  /\ UNCHANGED <<connVars, relayVars, reads, emits, posts, deletes, accounts>>

\* auth.controller.ts:56-58  the filter $or: [{email}, {username}] with the
\* username as the query casts it to n.
ExistingUser(email, n) ==
  \E a \in DOMAIN accounts :
     accounts[a].email = email \/ accounts[a].username = n

\* auth.controller.ts:56-71  findOne resolved: 400 when a user was found.
\* Whether the query's username passes through the trim setter depends on
\* the mongoose release, which the source does not fix: cast chooses.
\* findOne rejected: 500.
RegisterFind(j, ok, cast) ==
  /\ j \in DOMAIN regs
  /\ regs[j].pc = "find"
  /\ regs' = SetReg(j,
       IF ~ok THEN [regs[j] EXCEPT !.pc = "done", !.res = 500, !.error = "failed"]
       ELSE IF ExistingUser(regs[j].email,
                 IF cast THEN TrimName(regs[j].username) ELSE regs[j].username)
         THEN [regs[j] EXCEPT !.pc = "done", !.res = 400]
         ELSE [regs[j] EXCEPT !.pc = "save"])
  /\ UNCHANGED <<connVars, relayVars, reads, emits, posts, deletes, accounts>>

\* auth.controller.ts:74-79  new User({...}): the setters have run.
NewUser(r) == [username |-> TrimName(r.username), email |-> r.email]

\* User.ts:41,44  required and minlength on the trimmed username.
ValidUser(doc) == doc.username.name # ""

\* Mutant of DuplicateKey: no unique index.
DuplicateKeyNoIndex(doc) == FALSE

\* User.ts:42,51, database.ts:17  the unique indexes on username and email
\* reject an insert that repeats a stored value (E11000).
DuplicateKey(doc) ==
  \E a \in DOMAIN accounts :
     accounts[a].email = doc.email \/ accounts[a].username = doc.username

\* auth.controller.ts:81-109  user.save() resolved: the user is stored, 201.
\* Rejected by validation, by the hashing hook or the driver (ok = FALSE), or
\* by a unique index: the catch answers 500 and nothing is stored.
RegisterSave(j, ok) ==
  /\ j \in DOMAIN regs
  /\ regs[j].pc = "save"
  /\ LET doc == NewUser(regs[j]) IN
       IF ~ok \/ ~ValidUser(doc)
         THEN /\ regs' = SetReg(j, [regs[j] EXCEPT !.pc = "done", !.res = 500,
                                                  !.error = "failed"])
              /\ UNCHANGED accounts
       ELSE IF DuplicateKey(doc)
         THEN /\ regs' = SetReg(j, [regs[j] EXCEPT !.pc = "done", !.res = 500,
                                                  !.error = "E11000"])
              /\ UNCHANGED accounts
         ELSE /\ accounts' = Append(accounts, doc)
              /\ regs' = SetReg(j, [regs[j] EXCEPT !.pc = "done", !.res = 201])
  /\ UNCHANGED <<connVars, relayVars, reads, emits, posts, deletes>>

\* ---- emitToUser ---------------------------------------------------------
NoSock == 0

\* socket.ts:258-268  emitToUser(io, userId, event, data): the socket stored
\* for userId, if any, has emit called on it.  Of a call, to is that socket
\* (NoSock when there is no entry) and open whether its connection was open.
EmitToUser(u) ==
  /\ Len(emits) < MaxEmits
  /\ emits' = Append(emits,
       IF MapHas(activeConnections, u)
         THEN [userId |-> u, to |-> MapGet(activeConnections, u),
               open |-> sockState[MapGet(activeConnections, u)] = "open"]
         ELSE [userId |-> u, to |-> NoSock, open |-> FALSE])
  /\ UNCHANGED <<connVars, relayVars, reads, posts, deletes, accounts, regs>>

\* ---- REST logout (auth.controller.ts) -----------------------------------
\* auth.controller.ts:199-207  POST /logout by user u: findByIdAndUpdate is
\* awaited.
Logout(u) ==
  /\ Len(logouts) < MaxLogouts
  /\ logouts' = Append(logouts, [user |-> u, pc |-> "update", res |-> 0])
  /\ UNCHANGED <<sockState, sockUser, connPc, discPc, activeConnections, rooms,
                 isOnline, typingTimeout, lastSeen, statusLog, typingLog,
                 sockCred, relayVars, reads, restVars>>

LogoutUpdateSetsOnline(j, ok) ==
  /\ j \in DOMAIN logouts
  /\ logouts[j].pc = "update"
  /\ IF ok
       THEN /\ isOnline' = UpdateUser(isOnline, logouts[j].user, TRUE)
            /\ lastSeen' = UpdateUser(lastSeen, logouts[j].user, "logout")
            /\ logouts' = [logouts EXCEPT ![j] = [@ EXCEPT !.pc = "done", !.res = 200]]
       ELSE /\ logouts' = [logouts EXCEPT ![j] = [@ EXCEPT !.pc = "done", !.res = 500]]
            /\ UNCHANGED <<isOnline, lastSeen>>
  /\ UNCHANGED <<sockState, sockUser, connPc, discPc, activeConnections, rooms,
                 typingTimeout, statusLog, typingLog, sockCred, relayVars, reads,
                 restVars>>

\* auth.controller.ts:204-221  the write resolved ({isOnline: false, lastSeen:
\* now} stored, 200) or rejected (500).
LogoutUpdate(j, ok) ==
  /\ j \in DOMAIN logouts
  /\ logouts[j].pc = "update"
  /\ IF ok
       THEN /\ isOnline' = UpdateUser(isOnline, logouts[j].user, FALSE)
            /\ lastSeen' = UpdateUser(lastSeen, logouts[j].user, "logout")
            /\ logouts' = [logouts EXCEPT ![j] = [@ EXCEPT !.pc = "done", !.res = 200]]
       ELSE /\ logouts' = [logouts EXCEPT ![j] = [@ EXCEPT !.pc = "done", !.res = 500]]
            /\ UNCHANGED <<isOnline, lastSeen>>
  /\ UNCHANGED <<sockState, sockUser, connPc, discPc, activeConnections, rooms,
                 typingTimeout, statusLog, typingLog, sockCred, relayVars, reads,
                 restVars>>

\* ---- properties of the relay ------------------------------------------
\* Position of the first occurrence of ev in log (0 when absent), and its count.
Pos(log, ev) ==
  IF \E k \in DOMAIN log : log[k] = ev
    THEN CHOOSE k \in DOMAIN log : log[k] = ev /\ \A j \in 1 .. k - 1 : log[j] # ev
    ELSE 0

Count(log, ev) == Cardinality({k \in DOMAIN log : log[k] = ev})

Has(log, ev) == Pos(log, ev) > 0

Stored(m) == m \in DOMAIN messages

\* C1: persistence precedes delivery.  A messageReceived push is emitted only
\* for a request whose Message.create has stored its document; a request whose
\* Message.create failed ends with exactly one error event to the sender and
\* no push.
C1_PersistenceBeforePush ==
  /\ \A i \in DOMAIN reqs :
       /\ Has(reqs[i].log, "push") =>
            /\ Stored(reqs[i].msgId)
            /\ messages[reqs[i].msgId].req = i
            /\ Has(reqs[i].log, "create")
            /\ Pos(reqs[i].log, "create") < Pos(reqs[i].log, "push")
       /\ (reqs[i].pc = "done" /\ reqs[i].msgId = NoMsg) =>
            /\ reqs[i].log = <<"error">>
            /\ reqs[i].pushedTo = {}
  /\ \A k \in DOMAIN pushLog : Stored(reqs[pushLog[k]].msgId)

\* C1 witness: a stored message has been pushed to a connection of its receiver.
C1_Witness ==
  \E i \in DOMAIN reqs :
    /\ Stored(reqs[i].msgId)
    /\ reqs[i].pushedTo # {}
    /\ pushLog = <<i>>

\* C2 as stated: with an activeConnections entry for the receiver, the status
\* update to delivered comes before the messageReceived push.
C2_UpdateBeforePush ==
  \A i \in DOMAIN reqs :
    (Has(reqs[i].log, "push") /\ reqs[i].sessionAtPush) =>
       /\ Has(reqs[i].log, "update")
       /\ Pos(reqs[i].log, "update") < Pos(reqs[i].log, "push")

\* C2 amended: the handler creates the message once with status sent, then
\* emits messageReceived once to the receiver's room (reaching connections of
\* the receiver only, never the sending one), and only then updates the status
\* to delivered, once; a handler that ends without an error has done all three.
C2_CreatePushUpdate ==
  \A i \in DOMAIN reqs :
    LET r == reqs[i] IN
      /\ Count(r.log, "create") <= 1
      /\ Count(r.log, "push") <= 1
      /\ Count(r.log, "update") <= 1
      /\ Has(r.log, "push") => /\ Has(r.log, "create")
                               /\ Pos(r.log, "create") < Pos(r.log, "push")
      /\ Has(r.log, "update") => /\ Has(r.log, "push")
                                 /\ Pos(r.log, "push") < Pos(r.log, "update")
      /\ (Has(r.log, "create") /\ ~Has(r.log, "update")) =>
            messages[r.msgId].status = "sent"
      /\ Has(r.log, "update") => messages[r.msgId].status = "delivered"
      /\ \A s \in r.pushedTo : sockUser[s] = r.receiver /\ s # r.sock
      /\ (r.pc = "done" /\ ~Has(r.log, "error")) =>
            r.log = <<"create", "ack", "push", "update">>

\* C2 witness: a relay to a receiver with an activeConnections entry has run
\* to its end and its push reached two connections of the receiver.
C2_Witness ==
  \E i \in DOMAIN reqs :
    /\ reqs[i].pc = "done"
    /\ reqs[i].sessionAtPush
    /\ reqs[i].log = <<"create", "ack", "push", "update">>
    /\ Cardinality(reqs[i].pushedTo) = 2

\* C3 as stated: a relay to a receiver without any activeConnections entry
\* pushes to nobody, performs no status update and leaves the status sent.
C3_OfflineStaysSent ==
  \A i \in DOMAIN reqs :
    LET r == reqs[i] IN
      (/\ r.pc = "done"
       /\ Stored(r.msgId)
       /\ ~r.sessionAtCreate
       /\ ~r.sessionAtPush) =>
          /\ r.pushedTo = {}
          /\ ~Has(r.log, "update")
          /\ messages[r.msgId].status = "sent"

\* C7 as stated: when the receiver's activeConnections entry is removed by a
\* disconnect between Message.create and the push, the relay ends with the
\* persisted status still sent.
C7_DisconnectInFlightStaysSent ==
  \A i \in DOMAIN reqs :
    LET r == reqs[i] IN
      (/\ r.pc = "done"
       /\ Stored(r.msgId)
       /\ r.receiver # sockUser[r.sock]
       /\ r.sessionAtCreate
       /\ ~r.sessionAtPush) =>
          /\ ~Has(r.log, "update")
          /\ messages[r.msgId].status = "sent"

\* C8 as stated: of two sendMessage events received in order on one connection
\* for one receiver, the first is stored first and pushed first.
C8_SenderOrderPreserved ==
  \A i, k \in DOMAIN reqs :
    (/\ i < k
     /\ reqs[i].sock = reqs[k].sock
     /\ reqs[i].receiver = reqs[k].receiver) =>
        /\ (Stored(reqs[i].msgId) /\ Stored(reqs[k].msgId)) =>
              reqs[i].msgId < reqs[k].msgId
        /\ (Has(reqs[i].log, "push") /\ Has(reqs[k].log, "push")) =>
              Pos(pushLog, i) < Pos(pushLog, k)

\* The order sent -> delivered -> read.
Rank(st) == CASE st = "sent" -> 0 [] st = "delivered" -> 1 [] st = "read" -> 2

\* C9 as stated: a persisted status only moves forward; in particular a status
\* that has become read is never overwritten with delivered.
C9_StatusMovesForward ==
  [][\A m \in DOMAIN messages :
        Rank(messages'[m].status) >= Rank(messages[m].status)]_vars

\* ---- properties of the connection lifecycle ----------------------------
\* No connection or disconnect handler is between two of its steps.
Quiescent ==
  \A s \in Socks : /\ connPc[s] \in {"idle", "ready", "failed"}
                   /\ discPc[s] \in {"none", "done", "failed"}

\* C4 as stated: whenever no connect or disconnect handler is mid-execution,
\* isOnline of a user is true exactly when activeConnections has an entry for
\* that user.
C4_OnlineIffRegistered ==
  Quiescent => \A u \in Users : isOnline[u] <=> MapHas(activeConnections, u)

\* C5 as stated: the connection stored in an activeConnections entry is open,
\* and a user with an open authenticated connection has an entry.
C5_EntryIffOpen ==
  \A u \in Users :
    /\ MapHas(activeConnections, u) =>
          sockState[MapGet(activeConnections, u)] = "open"
    /\ (\E s \in Socks : sockState[s] = "open" /\ sockUser[s] = u) =>
          MapHas(activeConnections, u)

\* C6 as stated: once the disconnect handler of a connection has run its
\* synchronous part, for any reason, the connection has no pending typing
\* timer and activeConnections holds no entry for it.
C6_DisconnectCancelsAndRemoves ==
  \A s \in Socks :
    discPc[s] # "none" =>
       /\ typingTimeout[s] = NoUser
       /\ <<sockUser[s], s>> \notin activeConnections

\* C10: activeConnections never holds two entries for one user; a connection
\* handler that starts leaves the new connection as its user's entry, and
\* changes the state of no other connection (a replaced one stays open).
C10_OneEntryPerUser ==
  [][/\ \A p, q \in activeConnections' : p[1] = q[1] => p = q
     /\ \A s \in Socks :
          (sockState[s] = "new" /\ sockState'[s] = "open") =>
             /\ <<sockUser'[s], s>> \in activeConnections'
             /\ \A t \in Socks \ {s} : sockState'[t] = sockState[t]]_vars

\* C10 witness: a user has two open connections and the entry is the later one.
C10_Witness ==
  \E s, t \in Socks :
    /\ s < t
    /\ sockUser[s] = sockUser[t]
    /\ sockState[s] = "open" /\ sockState[t] = "open"
    /\ activeConnections = {<<sockUser[t], t>>}

\* ---- properties of stored presence -------------------------------------
\* The step completes the connection handler of a socket of u (its presence
\* write resolved).
ConnectStep(u) ==
  \E s \in Socks : /\ sockUser[s] = u
                   /\ connPc[s] = "presence" /\ connPc'[s] = "ready"

\* The step completes the disconnect handler of a socket of u (its presence
\* write resolved).
DisconnectStep(u) ==
  \E s \in Socks : /\ sockUser[s] = u
                   /\ discPc[s] = "presence" /\ discPc'[s] = "done"

\* The step completes a REST logout of u with 200.
LogoutStep(u) ==
  \E j \in DOMAIN logouts : /\ logouts[j].user = u
                            /\ logouts[j].pc = "update"
                            /\ logouts'[j].res = 200

C12_OneBroadcastPerTransition ==
  \A s \in Socks :
    /\ connPc[s] = "ready" =>
          Count(statusLog[s], StatusChanged(s, TRUE)) = 1
    /\ (connPc[s] = "ready" /\ sockState[s] = "closed" /\ discPc[s] # "presence") =>
          Count(statusLog[s], StatusChanged(s, FALSE)) = 1

\* C13 as stated: a connection whose presence write failed during connect
\* still has its activeConnections entry and has broadcast isOnline: true; a
\* connection whose presence write failed during disconnect has no entry left
\* and has broadcast isOnline: false.
C13_WriteFailureStillBroadcasts ==
  \A s \in Socks :
    /\ connPc[s] = "failed" =>
          /\ Count(statusLog[s], StatusChanged(s, TRUE)) = 1
          /\ (\A t \in Socks \ {s} : sockUser[t] # sockUser[s]) =>
                <<sockUser[s], s>> \in activeConnections
    /\ discPc[s] = "failed" =>
          /\ Count(statusLog[s], StatusChanged(s, FALSE)) = 1
          /\ <<sockUser[s], s>> \notin activeConnections

\* C23 as stated: a connection that was added to activeConnections and has
\* disconnected is eventually without an activeConnections entry and has
\* broadcast userStatusChanged {its userId, isOnline: false}.
C23_DisconnectEventuallyCleansUp ==
  \A s \in Socks :
    (sockState[s] = "closed" /\ sockUser[s] # NoUser)
       ~> /\ <<sockUser[s], s>> \notin activeConnections
          /\ Has(statusLog[s], StatusChanged(s, FALSE))

\* C24 as stated: a call of emitToUser emits to a connection only if that
\* connection is open, and to none when activeConnections has no entry for
\* the user.
C24_EmitsOnlyToOpen ==
  \A k \in DOMAIN emits :
    /\ emits[k].to # NoSock => emits[k].open
    /\ emits[k].to # NoSock => sockUser[emits[k].to] = emits[k].userId

\* ---- properties of a rejected or failed sendMessage --------------------
\* Nothing of request i is stored, pushed or acknowledged, and once its
\* handler has ended the sender, and nobody else, has received one error event.
Rejected(i) ==
  LET r == reqs[i] IN
    /\ r.msgId = NoMsg
    /\ \A m \in DOMAIN messages : messages[m].req # i
    /\ ~Has(r.log, "push") /\ r.pushedTo = {}
    /\ ~Has(r.log, "ack") /\ r.sent = <<>>
    /\ r.pc = "done" => r.log = <<"error">> /\ r.errorsTo = {r.sock}

\* C14 as stated: a sendMessage whose content is empty after trimming, or
\* whose content is longer than 5000 characters, is rejected.
C14_EmptyOrLongRejected ==
  \A i \in DOMAIN reqs :
    (\/ ~Required(Trim(reqs[i].data.content))
     \/ Length(reqs[i].data.content) > MaxLength) => Rejected(i)

\* C14, amended: a sendMessage whose content, after trimming, is empty or
\* longer than 5000 characters is rejected: nothing is persisted, no
\* messageReceived and no messageSent is emitted, and the sender receives an
\* error event.
C14_EmptyOrLongAfterTrimRejected ==
  \A i \in DOMAIN reqs :
    (\/ ~Required(Trim(reqs[i].data.content))
     \/ Length(Trim(reqs[i].data.content)) > MaxLength) => Rejected(i)

\* C14 witness: the handler of a sendMessage to an existing user whose content
\* is 5001 characters long after trimming has ended with the error event.
C14_Witness ==
  \E i \in DOMAIN reqs :
    /\ reqs[i].receiver \in Users
    /\ reqs[i].data.content = Str(1, MaxLength + 1)
    /\ reqs[i].pc = "done"
    /\ reqs[i].log = <<"error">>
    /\ messages = <<>>

\* C15 as stated: a sendMessage whose receiverId names no existing user
\* stores no message and emits no push.
C15_UnknownReceiverRejected ==
  \A i \in DOMAIN reqs :
    reqs[i].receiver \notin Users =>
       /\ reqs[i].msgId = NoMsg
       /\ \A m \in DOMAIN messages : messages[m].req # i
       /\ ~Has(reqs[i].log, "push")

\* C16 as stated: once the handler of a sendMessage whose message was stored
\* has ended, the sender has received exactly one messageSent, carrying the
\* id of the stored message and the tempId of the event, emitted after the
\* creation and before the push.
C16_OneAckPerStoredMessage ==
  \A i \in DOMAIN reqs :
    LET r == reqs[i] IN
      (Stored(r.msgId) /\ r.pc = "done") =>
         /\ r.sent = <<[messageId |-> r.msgId, tempId |-> r.data.tempId]>>
         /\ Count(r.log, "ack") = 1
         /\ Pos(r.log, "create") < Pos(r.log, "ack")
         /\ Has(r.log, "push") => Pos(r.log, "ack") < Pos(r.log, "push")

\* C25 as stated: once the handler of a sendMessage has ended, the sender has
\* received exactly one outcome event, a messageSent or an error, not both.
C25_ExactlyOneOutcome ==
  \A i \in DOMAIN reqs :
    reqs[i].pc = "done" =>
       Count(reqs[i].log, "ack") + Count(reqs[i].log, "error") = 1

\* The step emits the messageReceived push of request i.
PushStep(i) ==
  /\ ~Has(reqs[i].log, "push")
  /\ Has(reqs'[i].log, "push")

\* The open connections authenticated as user u.
OpenOf(u) == {t \in Socks : sockState[t] = "open" /\ sockUser[t] = u}

\* C26: the room named R holds exactly the open connections authenticated as
\* R, and a messageReceived push addressed to R reaches exactly the
\* connections in that room at that moment, without the sending one: every
\* open connection of R, registered in activeConnections or replaced there,
\* and no connection of another user.
C26_PushReachesRoom ==
  /\ [](\A u \in Users : rooms[u] = OpenOf(u))
  /\ [][\A i \in DOMAIN reqs :
          PushStep(i) =>
             reqs'[i].pushedTo = OpenOf(reqs[i].receiver) \ {reqs[i].sock}]_vars

\* C26 witness: a push to R has reached an open connection of R that is not
\* the one activeConnections stores for R.
C26_Witness ==
  \E i \in DOMAIN reqs, t \in Socks :
    /\ t \in reqs[i].pushedTo
    /\ sockState[t] = "open"
    /\ MapHas(activeConnections, reqs[i].receiver)
    /\ MapGet(activeConnections, reqs[i].receiver) # t
    /\ reqs[i].receiver # sockUser[reqs[i].sock]

\* C27 as stated: a REST sendMessage answered 201 and a socket sendMessage
\* ended without error, with the same sender, receiver and content, and the
\* same connections in the receiver's room at their push, have stored messages
\* of the same status and have pushed messageReceived to the same connections.
C27_RestEqualsSocket ==
  \A k \in DOMAIN posts, i \in DOMAIN reqs :
    (/\ posts[k].res = 201
     /\ reqs[i].pc = "done" /\ ~Has(reqs[i].log, "error")
     /\ posts[k].user = sockUser[reqs[i].sock]
     /\ posts[k].data.receiverId = reqs[i].data.receiverId
     /\ posts[k].data.content = reqs[i].data.content
     /\ posts[k].room = reqs[i].room) =>
        /\ messages[posts[k].msgId].status = messages[reqs[i].msgId].status
        /\ posts[k].pushedTo = reqs[i].pushedTo

\* The markMessageAsRead requests on message m answered 200: each has stored
\* status read and emitted messageRead to the sender's room.
ReadsOf(m) == {j \in DOMAIN reads : reads[j].msg = m /\ reads[j].res = 200}

\* C28 as stated: a markMessageAsRead answered 200 was made by the receiver
\* of a stored message, and over requests that do not overlap each message
\* has at most one such request, hence one read transition and one
\* messageRead event.
C28_AtMostOneReadTransition ==
  /\ \A j \in DOMAIN reads :
        reads[j].res = 200 => /\ Stored(reads[j].msg)
                              /\ messages[reads[j].msg].receiver = reads[j].user
  /\ \A m \in DOMAIN messages : Cardinality(ReadsOf(m)) <= 1

\* C29 as stated: a deleteMessage is answered 200 only for the sender or the
\* receiver of a stored message; a user who has been answered 200 is in
\* deletedFor of that message exactly once, however many deletes that user
\* made, and no other user is in it.
C29_SoftDeleteIdempotent ==
  /\ \A j \in DOMAIN deletes :
        deletes[j].res = 200 =>
           /\ FindOwn(deletes[j].msg, deletes[j].user)
           /\ Count(messages[deletes[j].msg].deletedFor, deletes[j].user) = 1
  /\ \A m \in DOMAIN messages, u \in Users :
        Count(messages[m].deletedFor, u) <= 1

\* The email or the stored form of the username of request r is taken.
Taken(r) ==
  \E a \in DOMAIN accounts :
     accounts[a].email = r.email \/ accounts[a].username = TrimName(r.username)

\* The step answers register request j.
AnswerStep(j) ==
  /\ j \in DOMAIN regs
  /\ regs[j].pc # "done"
  /\ regs'[j].pc = "done"

\* C30: under every interleaving of register requests no two stored users
\* share an email or a username and exactly the requests answered 201 are
\* stored; a request answered while its email or username is taken stores
\* nothing and is answered 400 (by the existence check) or 500 (after the
\* check, by the unique index or another failure of save).
C30_NoSharedEmailOrUsername ==
  /\ [](/\ \A a, b \in DOMAIN accounts :
            a # b => /\ accounts[a].email # accounts[b].email
                     /\ accounts[a].username # accounts[b].username
         /\ Len(accounts) = Cardinality({j \in DOMAIN regs : regs[j].res = 201}))
  /\ [][\A j \in DOMAIN regs :
          AnswerStep(j) /\ Taken(regs[j]) =>
             /\ accounts' = accounts
             /\ regs'[j].res \in {400, 500}
             /\ regs[j].pc = "save" => regs'[j].res = 500]_vars

\* Two requests with one email passed the existence check together; one is
\* stored and the unique index rejected the other.
C30_Witness ==
  \E i, j \in DOMAIN regs :
     /\ regs[i].email = regs[j].email
     /\ regs[i].res = 201
     /\ regs[j].res = 500
     /\ regs[j].error = "E11000"
     /\ Len(accounts) = 1

\* The step ends the handler of request i in its catch.
FailStep(i) ==
  /\ ~Has(reqs[i].log, "error")
  /\ Has(reqs'[i].log, "error")

\* C18: a step in which a sendMessage handler fails emits its error event to
\* the initiating connection only, and leaves activeConnections, the stored
\* presence of every user, every pending typing timer, the presence
\* broadcasts and every other request unchanged.
C18_FailureIsLocal ==
  [][\A i \in DOMAIN reqs :
       FailStep(i) =>
         /\ reqs'[i].errorsTo = {reqs[i].sock}
         /\ activeConnections' = activeConnections
         /\ isOnline' = isOnline
         /\ lastSeen' = lastSeen
         /\ typingTimeout' = typingTimeout
         /\ statusLog' = statusLog
         /\ sockState' = sockState
         /\ rooms' = rooms
         /\ \A k \in DOMAIN reqs \ {i} : reqs'[k] = reqs[k]]_vars

\* C18 witness: a sendMessage has failed and reported to its connection while
\* another connection is open, registered and has a typing timer pending.
C18_Witness ==
  \E i \in DOMAIN reqs, t \in Socks :
    /\ Has(reqs[i].log, "error")
    /\ reqs[i].errorsTo = {reqs[i].sock}
    /\ t # reqs[i].sock
    /\ Ready(t)
    /\ typingTimeout[t] # NoUser
    /\ MapHas(activeConnections, sockUser[t])
    /\ isOnline[sockUser[t]]

\* ---- properties of the authentication middleware ----------------------
\* Connection s has never been handled as a connection: no user, no handler
\* step, no activeConnections entry, no room, no broadcast.
NotAdmitted(s) ==
  /\ sockState[s] = "refused"
  /\ sockUser[s] = NoUser
  /\ connPc[s] = "idle" /\ discPc[s] = "none"
  /\ \A e \in activeConnections : e[2] # s
  /\ \A room \in DOMAIN rooms : s \notin rooms[room]
  /\ statusLog[s] = <<>>

\* C17: a connection whose credential is missing, malformed, expired or names
\* no user is never admitted: in no step does it get an activeConnections
\* entry, run a handler or broadcast, and the step that refuses it changes no
\* user's isOnline or lastSeen, no activeConnections entry and no broadcast.
C17_BadCredentialNeverAdmitted ==
  [][\A s \in Socks :
       sockCred'[s] \notin Users \cup {NoUser} =>
          /\ NotAdmitted(s)'
          /\ sockCred[s] # sockCred'[s] =>
                /\ isOnline' = isOnline
                /\ lastSeen' = lastSeen
                /\ activeConnections' = activeConnections
                /\ statusLog' = statusLog]_vars

\* C17 witness: a handshake with a token naming no user has been refused while
\* another user is connected and online.
C17_Witness ==
  \E s, t \in Socks :
    /\ sockCred[s] = GhostId
    /\ sockState[s] = "refused"
    /\ Ready(t)
    /\ isOnline[sockUser[t]]
    /\ activeConnections = {<<sockUser[t], t>>}

\* ---- properties of the typing indicators -------------------------------
\* The typing and stopTyping events socket s has received, in order.
Received(s) == SelectSeq(typingLog[s], LAMBDA e : e.ev \in InboundTyping)

TypingThenStop(rcv) ==
  <<Entry("typing", rcv), Entry("userTyping", rcv),
    Entry("stopTyping", rcv), Entry("userStoppedTyping", rcv)>>

TypingOnly(rcv) == <<Entry("typing", rcv), Entry("userTyping", rcv)>>

TypingThenTimeout(rcv) ==
  <<Entry("typing", rcv), Entry("userTyping", rcv),
    Entry("timeout", rcv), Entry("userStoppedTyping", rcv)>>

\* The log of s starts with typing(rcv), userTyping(rcv), stopTyping(rcv):
\* the stopTyping arrived before the timer expired.
StoppedBeforeExpiry(s, rcv) ==
  /\ Len(typingLog[s]) >= 3
  /\ SubSeq(typingLog[s], 1, 3) = SubSeq(TypingThenStop(rcv), 1, 3)

\* C19: when a connection has received typing for B and then, before the
\* timer expired, stopTyping for B, and nothing else, it has emitted exactly
\* one userTyping and exactly one userStoppedTyping to B, its timer is
\* cancelled, and no timer expiry ever adds another userStoppedTyping.
C19_StopCancelsTimer ==
  \A s \in Socks, rcv \in Users :
    (StoppedBeforeExpiry(s, rcv) /\ Len(Received(s)) = 2) =>
       /\ typingLog[s] = TypingThenStop(rcv)
       /\ typingTimeout[s] = NoUser

\* C19 witness: typing then stopTyping for B were handled on an open
\* connection of A while B has an open connection in its room.
C19_Witness ==
  \E s \in Socks, rcv \in Users :
    /\ Ready(s)
    /\ rcv # sockUser[s]
    /\ typingLog[s] = TypingThenStop(rcv)
    /\ ToRoom(s, rcv) # {}

\* C20: a connection that has received one typing for B and nothing else has
\* emitted exactly one userTyping to B at once and at most one
\* userStoppedTyping to B, and that one only at the expiry of the timer; and
\* from the moment of the typing, unless another typing event arrives or the
\* connection closes, the expiry and its userStoppedTyping eventually happen.
C20_TimerStopsTyping ==
  /\ [](\A s \in Socks, rcv \in Users :
          (Received(s) = <<Entry("typing", rcv)>>) =>
             \/ typingLog[s] = TypingOnly(rcv) /\ (Ready(s) => typingTimeout[s] = rcv)
             \/ typingLog[s] = TypingThenTimeout(rcv) /\ typingTimeout[s] = NoUser)
  /\ \A s \in Socks, rcv \in Users :
        (typingLog[s] = TypingOnly(rcv))
          ~> \/ typingLog[s] = TypingThenTimeout(rcv)
             \/ Len(Received(s)) > 1
             \/ ~Ready(s)

\* C20 witness: on an open connection of A the timer of a typing for B has
\* expired and emitted userStoppedTyping while B has an open connection.
C20_Witness ==
  \E s \in Socks, rcv \in Users :
    /\ Ready(s)
    /\ rcv # sockUser[s]
    /\ typingLog[s] = TypingThenTimeout(rcv)
    /\ ToRoom(s, rcv) # {}

\* C21 as stated: when a connection has received typing for B twice in a row,
\* the second before the timer of the first expired, it has emitted a single
\* userTyping to B, and at most one userStoppedTyping to B.
C21_RearmIsIdempotent ==
  \A s \in Socks, rcv \in Users :
    (/\ Len(typingLog[s]) >= 3
     /\ typingLog[s][1] = Entry("typing", rcv)
     /\ typingLog[s][3] = Entry("typing", rcv)) =>
        /\ Count(typingLog[s], Entry("userTyping", rcv)) = 1
        /\ Count(typingLog[s], Entry("userStoppedTyping", rcv)) <= 1

\* The events a connection emits on receiving ev for room rcv.
Handled(ev, rcv) ==
  <<Entry(ev, rcv),
    Entry(IF ev = "typing" THEN "userTyping" ELSE "userStoppedTyping", rcv)>>

\* C22 as stated: when a connection with a pending timer for B receives a
\* typing or stopTyping addressed to another user, the timer for B still
\* expires (unless the connection closes or receives a further event), so B
\* gets its timer-driven userStoppedTyping.
C22_TimersPerPair ==
  \A s \in Socks, b \in Users, c \in Users, ev \in InboundTyping :
    (b # c /\ typingLog[s] = TypingOnly(b) \o Handled(ev, c))
       ~> \/ Has(typingLog[s], Entry("timeout", b))
          \/ Len(Received(s)) > 2
          \/ ~Ready(s)

\* ---- specifications ----------------------------------------------------
\* The connection lifecycle with the typing timer.
Next ==
  \/ \E s \in Socks, u \in Users : Connect(s, u)
  \/ \E s \in Socks, ok \in BOOLEAN : ConnectPresence(s, ok)
  \/ \E s \in Socks, reason \in Reasons : Disconnect(s, reason)
  \/ \E s \in Socks, ok \in BOOLEAN : DisconnectPresence(s, ok)
  \/ \E s \in Socks, rcv \in Users : TypingEvents < OneTyping /\ Typing(s, rcv)
  \/ \E s \in Socks, rcv \in Users :
        TypingEvents < OneTyping /\ StopTyping(s, rcv)
  \/ \E s \in Socks : TimerFire(s)

Spec == Init /\ [][Next]_vars

\* Every awaited storage call is answered (it resolves or rejects) and every
\* armed timer expires.
SpecFair ==
  /\ Spec
  /\ \A s \in Socks : /\ WF_vars(\E ok \in BOOLEAN : ConnectPresence(s, ok))
                       /\ WF_vars(\E ok \in BOOLEAN : DisconnectPresence(s, ok))
                       /\ WF_vars(TimerFire(s))

\* One relayed message among MaxSocks connections.
NextRelay ==
  \/ \E s \in Socks, u \in Users : Connect(s, u)
  \/ \E s \in Socks, ok \in BOOLEAN : ConnectPresence(s, ok)
  \/ \E s \in Socks, reason \in Reasons : Disconnect(s, reason)
  \/ \E s \in Socks, ok \in BOOLEAN : DisconnectPresence(s, ok)
  \/ \E s \in Socks, rcv \in Users : Len(reqs) < OneMsg /\ SendMessage(s, Text(rcv))
  \/ \E i \in DOMAIN reqs, ok \in BOOLEAN : SendCreate(i, ok)
  \/ \E i \in DOMAIN reqs, ok \in BOOLEAN : SendPopulate(i, ok)
  \/ \E i \in DOMAIN reqs, ok \in BOOLEAN : SendSave(i, ok)

SpecRelay == Init /\ [][NextRelay]_vars

\* MaxMsgs relayed messages between PairSocks connections.
NextOrder ==
  \/ \E s \in 1 .. PairSocks, u \in Users : Connect(s, u)
  \/ \E s \in Socks, ok \in BOOLEAN : ConnectPresence(s, ok)
  \/ \E s \in Socks, reason \in Reasons : Disconnect(s, reason)
  \/ \E s \in Socks, ok \in BOOLEAN : DisconnectPresence(s, ok)
  \/ \E s \in Socks, rcv \in Users : SendMessage(s, Text(rcv))
  \/ \E i \in DOMAIN reqs, ok \in BOOLEAN : SendCreate(i, ok)
  \/ \E i \in DOMAIN reqs, ok \in BOOLEAN : SendPopulate(i, ok)
  \/ \E i \in DOMAIN reqs, ok \in BOOLEAN : SendSave(i, ok)

SpecOrder == Init /\ [][NextOrder]_vars

\* One relayed message racing with read receipts, between PairSocks connections.
NextRead ==
  \/ \E s \in 1 .. PairSocks, u \in Users : Connect(s, u)
  \/ \E s \in Socks, ok \in BOOLEAN : ConnectPresence(s, ok)
  \/ \E s \in Socks, reason \in Reasons : Disconnect(s, reason)
  \/ \E s \in Socks, ok \in BOOLEAN : DisconnectPresence(s, ok)
  \/ \E s \in Socks, rcv \in Users : Len(reqs) < OneMsg /\ SendMessage(s, Text(rcv))
  \/ \E i \in DOMAIN reqs, ok \in BOOLEAN : SendCreate(i, ok)
  \/ \E i \in DOMAIN reqs, ok \in BOOLEAN : SendPopulate(i, ok)
  \/ \E i \in DOMAIN reqs, ok \in BOOLEAN : SendSave(i, ok)
  \/ \E u \in Users, m \in 1 .. OneMsg :
        Len(reads) < OneRead /\ MarkMessageAsRead(u, m)
  \/ \E j \in DOMAIN reads, ok \in BOOLEAN : ReadFind(j, ok)
  \/ \E j \in DOMAIN reads, ok \in BOOLEAN : ReadSave(j, ok)

SpecRead == Init /\ [][NextRead]_vars

\* One relayed message and MaxReads read receipts, each requested after the
\* one before was answered, between PairSocks connections.
NextReadSeq ==
  \/ \E s \in 1 .. PairSocks, u \in Users : Connect(s, u)
  \/ \E s \in Socks, ok \in BOOLEAN : ConnectPresence(s, ok)
  \/ \E s \in Socks, reason \in Reasons : Disconnect(s, reason)
  \/ \E s \in Socks, ok \in BOOLEAN : DisconnectPresence(s, ok)
  \/ \E s \in Socks, rcv \in Users : Len(reqs) < OneMsg /\ SendMessage(s, Text(rcv))
  \/ \E i \in DOMAIN reqs, ok \in BOOLEAN : SendCreate(i, ok)
  \/ \E i \in DOMAIN reqs, ok \in BOOLEAN : SendPopulate(i, ok)
  \/ \E i \in DOMAIN reqs, ok \in BOOLEAN : SendSave(i, ok)
  \/ \E u \in Users, m \in 1 .. OneMsg :
        (\A j \in DOMAIN reads : reads[j].pc = "done") /\ MarkMessageAsRead(u, m)
  \/ \E j \in DOMAIN reads, ok \in BOOLEAN : ReadFind(j, ok)
  \/ \E j \in DOMAIN reads, ok \in BOOLEAN : ReadSave(j, ok)

SpecReadSeq == Init /\ [][NextReadSeq]_vars

\* REST logouts racing with the lifecycle of PairSocks connections.
NextLogout ==
  \/ \E s \in 1 .. PairSocks, u \in Users : Connect(s, u)
  \/ \E s \in Socks, ok \in BOOLEAN : ConnectPresence(s, ok)
  \/ \E s \in Socks, reason \in Reasons : Disconnect(s, reason)
  \/ \E s \in Socks, ok \in BOOLEAN : DisconnectPresence(s, ok)
  \/ \E u \in Users : Logout(u)
  \/ \E j \in DOMAIN logouts, ok \in BOOLEAN : LogoutUpdate(j, ok)

SpecLogout == Init /\ [][NextLogout]_vars

\* MaxDeletes deleteMessage requests, overlapping or not, on one message sent
\* through the REST endpoint.
NextDelete ==
  \/ \E u \in Users, rcv \in Users : PostMessage(u, Text(rcv))
  \/ \E k \in DOMAIN posts, ok \in BOOLEAN : PostFind(k, ok)
  \/ \E k \in DOMAIN posts, ok \in BOOLEAN : PostCreate(k, ok)
  \/ \E k \in DOMAIN posts, ok \in BOOLEAN : PostPopulate(k, ok)
  \/ \E u \in Users, m \in 1 .. MaxPosts : DeleteMessage(u, m)
  \/ \E j \in DOMAIN deletes, ok \in BOOLEAN : DeleteFind(j, ok)
  \/ \E j \in DOMAIN deletes, ok \in BOOLEAN : DeleteSave(j, ok)

SpecDelete == Init /\ [][NextDelete]_vars

\* MaxRegs register requests, overlapping or not.
NextRegister ==
  \/ \E n \in Usernames, email \in Emails, password \in Passwords :
        Register(n, email, password)
  \/ \E j \in DOMAIN regs, ok \in BOOLEAN, cast \in BOOLEAN : RegisterFind(j, ok, cast)
  \/ \E j \in DOMAIN regs, ok \in BOOLEAN : RegisterSave(j, ok)

SpecRegister == Init /\ [][NextRegister]_vars

\* One socket sendMessage and one REST sendMessage, between PairSocks
\* connections.
NextPost ==
  \/ \E s \in 1 .. PairSocks, u \in Users : Connect(s, u)
  \/ \E s \in Socks, ok \in BOOLEAN : ConnectPresence(s, ok)
  \/ \E s \in Socks, reason \in Reasons : Disconnect(s, reason)
  \/ \E s \in Socks, ok \in BOOLEAN : DisconnectPresence(s, ok)
  \/ \E s \in Socks, rcv \in Users : Len(reqs) < OneMsg /\ SendMessage(s, Text(rcv))
  \/ \E i \in DOMAIN reqs, ok \in BOOLEAN : SendCreate(i, ok)
  \/ \E i \in DOMAIN reqs, ok \in BOOLEAN : SendPopulate(i, ok)
  \/ \E i \in DOMAIN reqs, ok \in BOOLEAN : SendSave(i, ok)
  \/ \E u \in Users, rcv \in Users \cup {GhostId} : PostMessage(u, Text(rcv))
  \/ \E k \in DOMAIN posts, ok \in BOOLEAN : PostFind(k, ok)
  \/ \E k \in DOMAIN posts, ok \in BOOLEAN : PostCreate(k, ok)
  \/ \E k \in DOMAIN posts, ok \in BOOLEAN : PostPopulate(k, ok)

SpecPost == Init /\ [][NextPost]_vars

\* emitToUser called at any moment of the lifecycle of PairSocks connections.
NextEmit ==
  \/ \E s \in 1 .. PairSocks, u \in Users : Connect(s, u)
  \/ \E s \in Socks, ok \in BOOLEAN : ConnectPresence(s, ok)
  \/ \E s \in Socks, reason \in Reasons : Disconnect(s, reason)
  \/ \E s \in Socks, ok \in BOOLEAN : DisconnectPresence(s, ok)
  \/ \E u \in Users \cup {GhostId} : EmitToUser(u)

SpecEmit == Init /\ [][NextEmit]_vars

\* One sendMessage with any data a client can send, on one of PairSocks
\* connections, next to one typing event.
NextInput ==
  \/ \E s \in 1 .. PairSocks, u \in Users : Connect(s, u)
  \/ \E s \in Socks, ok \in BOOLEAN : ConnectPresence(s, ok)
  \/ \E s \in Socks, reason \in Reasons : Disconnect(s, reason)
  \/ \E s \in Socks, ok \in BOOLEAN : DisconnectPresence(s, ok)
  \/ \E s \in Socks, data \in Data : Len(reqs) < OneMsg /\ SendMessage(s, data)
  \/ \E i \in DOMAIN reqs, ok \in BOOLEAN : SendCreate(i, ok)
  \/ \E i \in DOMAIN reqs, ok \in BOOLEAN : SendPopulate(i, ok)
  \/ \E i \in DOMAIN reqs, ok \in BOOLEAN : SendSave(i, ok)
  \/ \E s \in Socks, rcv \in Users : TypingEvents < OneTyping /\ Typing(s, rcv)
  \/ \E s \in Socks : TimerFire(s)

SpecInput == Init /\ [][NextInput]_vars

\* Handshakes with any credential, and the lifecycle of those that pass.
NextAuth ==
  \/ \E s \in Socks, cred \in Credentials : Authenticates(cred) /\ Connect(s, cred)
  \/ \E s \in Socks, cred \in Credentials, ok \in BOOLEAN : AuthFail(s, cred, ok)
  \/ \E s \in Socks, ok \in BOOLEAN : ConnectPresence(s, ok)
  \/ \E s \in Socks, reason \in Reasons : Disconnect(s, reason)
  \/ \E s \in Socks, ok \in BOOLEAN : DisconnectPresence(s, ok)

SpecAuth == Init /\ [][NextAuth]_vars

\* MaxTyping typing and stopTyping events on PairSocks connections.
NextTyping ==
  \/ \E s \in 1 .. PairSocks, u \in Users : Connect(s, u)
  \/ \E s \in Socks, ok \in BOOLEAN : ConnectPresence(s, ok)
  \/ \E s \in Socks, reason \in Reasons : Disconnect(s, reason)
  \/ \E s \in Socks, ok \in BOOLEAN : DisconnectPresence(s, ok)
  \/ \E s \in Socks, rcv \in Users : Typing(s, rcv)
  \/ \E s \in Socks, rcv \in Users : StopTyping(s, rcv)
  \/ \E s \in Socks : TimerFire(s)

SpecTyping == Init /\ [][NextTyping]_vars

\* A timer that stays armed expires (setTimeout, socket.ts:176).
SpecTypingFair == SpecTyping /\ \A s \in Socks : WF_vars(TimerFire(s))
====
